---------------------------- MODULE Spec2Model ----------------------------
(***************************************************************************)
(* Model of src/main.py: the /run endpoint (run_ingestion) of the Places   *)
(* ingestion service, with the helpers it calls.                           *)
(*                                                                         *)
(* Coordinates and the grid step are Python floats (IEEE-754 binary64,     *)
(* round to nearest, ties to even).  The model keeps that arithmetic at a  *)
(* reduced precision: a value is an integer number of units, and every     *)
(* sum is rounded to MantissaBits significant bits.  Polygon vertices,     *)
(* place coordinates and steps are representable values.                   *)
(***************************************************************************)
EXTENDS Integers, Sequences, FiniteSets

\* Significant bits of a float of the model (53 in binary64).
MantissaBits == 3
\* Cap on len(pts): only a walk that never ends (step <= 0, or a step that a
\* sum rounds away) reaches it.
MaxPts == 12
\* Most entries resp["results"] holds in one response.
MaxResults == 2

VARIABLES
    pc,              \* position of the request handler run_ingestion
    polygon,         \* the polygon stored in the bucket (MAHARAJ_SHA_GEOJSON)
    step,            \* GRID_STEP_DEG
    lat, lon, pts,   \* locals of generate_grid_points_within_polygon
    grid,            \* run_ingestion: grid
    idx,             \* position of "for lat, lon in grid" (1-based)
    features, seen, total_calls,
    remaining,       \* entries of resp["results"] not yet iterated
    next_page_token, \* whether resp carries "next_page_token"
    place,           \* the loop variable of "for place in resp.get(...)"
    bucket,          \* objects of the GCS bucket under GCS_PREFIX
    table,           \* rows of the BigQuery table
    calls,           \* external calls issued so far, by kind
    sent_params,     \* the key sets of the query strings sent to NEARBY_URL
    response         \* the HTTP response of /run

vars == <<pc, polygon, step, lat, lon, pts, grid, idx, features, seen,
          total_calls, remaining, next_page_token, place, bucket, table,
          calls, sent_params, response>>

-----------------------------------------------------------------------------
(* Float arithmetic *)

RECURSIVE Pow2(_)
Pow2(n) == IF n = 0 THEN 1 ELSE 2 * Pow2(n - 1)

RECURSIVE Quantum(_, _)
\* The spacing of representable values at magnitude x >= 0.
Quantum(x, q) == IF x < Pow2(MantissaBits) * q THEN q ELSE Quantum(x, 2 * q)

RoundNat(x) ==
    LET q == Quantum(x, 1)
        r == x % q
        down == x - r
    IN  IF 2 * r < q THEN down
        ELSE IF 2 * r > q THEN down + q
        ELSE IF (down \div q) % 2 = 0 THEN down ELSE down + q

\* Round to nearest representable value, ties to even.
Round(x) == IF x < 0 THEN 0 - RoundNat(0 - x) ELSE RoundNat(x)

\* a + b on floats
FAdd(a, b) == Round(a + b)

-----------------------------------------------------------------------------
(* Polygons: shapely geometries, by their bounds and covers() *)

Rect(x0, y0, x1, y1) ==
    [kind |-> "rect", minx |-> x0, miny |-> y0, maxx |-> x1, maxy |-> y1]
\* Right triangle (minx,miny), (maxx,miny), (minx,maxy).
Tri(x0, y0, x1, y1) ==
    [kind |-> "tri", minx |-> x0, miny |-> y0, maxx |-> x1, maxy |-> y1]
\* Rhombus through the midpoints of the sides of its bounding box.
Diamond(x0, y0, x1, y1) ==
    [kind |-> "diamond", minx |-> x0, miny |-> y0, maxx |-> x1, maxy |-> y1]

UnitSquare == Rect(0, 0, 2, 2)   \* [0,0]-[1,1] in units of 0.5

Polygons ==
    { UnitSquare, Rect(0, 0, 4, 1), Rect(2, 0, 14, 1), Rect(0, 0, 8, 1),
      Tri(0, 0, 2, 2), Diamond(0, 0, 2, 2) }

Steps == {-1, 0, 1, 2, 3}

Abs(x) == IF x < 0 THEN 0 - x ELSE x

\* polygon.bounds
Bounds(p) == <<p.minx, p.miny, p.maxx, p.maxy>>

\* polygon.covers(Point(x, y)): boundary-inclusive containment.
Covers(p, x, y) ==
    LET w == p.maxx - p.minx
        h == p.maxy - p.miny
        inbox == p.minx <= x /\ x <= p.maxx /\ p.miny <= y /\ y <= p.maxy
    IN  CASE p.kind = "rect" -> inbox
          [] p.kind = "tri" ->
                inbox /\ (x - p.minx) * h + (y - p.miny) * w <= w * h
          [] p.kind = "diamond" ->
                Abs(2 * x - (p.minx + p.maxx)) * h
                  + Abs(2 * y - (p.miny + p.maxy)) * w <= w * h

-----------------------------------------------------------------------------
(* generate_grid_points_within_polygon *)

within_strict(v, max) == v < max
\* The loop conditions "lat <= maxy" and "lon <= maxx".
within(v, max) == v <= max

GridEnter ==
    /\ pc = "grid_enter"
    /\ lat' = Bounds(polygon)[2]
    /\ pts' = <<>>
    /\ pc' = "grid_outer"
    /\ UNCHANGED <<polygon, step, lon, grid, idx, features, seen, total_calls,
                   remaining, next_page_token, place, bucket, table, calls,
                   sent_params, response>>

\* "while lat <= maxy": enter a row, or return pts.
GridOuter ==
    /\ pc = "grid_outer"
    /\ IF within(lat, Bounds(polygon)[4])
       THEN /\ lon' = Bounds(polygon)[1]
            /\ pc' = "grid_inner"
            /\ grid' = grid
       ELSE /\ grid' = pts
            /\ pc' = "check_grid"
            /\ lon' = lon
    /\ UNCHANGED <<polygon, step, lat, pts, idx, features, seen, total_calls,
                   remaining, next_page_token, place, bucket, table, calls,
                   sent_params, response>>

\* "while lon <= maxx": test one point and advance, or end the row.
GridInner ==
    /\ pc = "grid_inner"
    /\ IF within(lon, Bounds(polygon)[3])
       THEN /\ IF Covers(polygon, lon, lat)
               THEN /\ Len(pts) < MaxPts
                    /\ pts' = Append(pts, <<lat, lon>>)
               ELSE pts' = pts
            /\ lon' = FAdd(lon, step)
            /\ lat' = lat
            /\ pc' = pc
       ELSE /\ lat' = FAdd(lat, step)
            /\ pc' = "grid_outer"
            /\ UNCHANGED <<lon, pts>>
    /\ UNCHANGED <<polygon, step, grid, idx, features, seen, total_calls,
                   remaining, next_page_token, place, bucket, table, calls,
                   sent_params, response>>

-----------------------------------------------------------------------------
(* Search results and features *)

PlaceIds == {"", "A", "B"}            \* "" : no place_id
PlaceLocs == {<<>>, <<1, 1>>, <<2, 1>>, <<5, 5>>}   \* <<lng, lat>>; <<>> : none
Places == [place_id : PlaceIds, loc : PlaceLocs]

places_nearby_params_paged(place_type) ==
    {"key", "location", "radius", "pagetoken"}
\* The query string places_nearby sends ("" : place_type is None).
places_nearby_params(place_type) ==
    {"key", "location", "radius"}
        \cup (IF place_type # "" THEN {"type"} ELSE {})

\* <<>> is None.
feature_from_place(p) ==
    IF p.loc = <<>>
    THEN <<>>
    ELSE <<[type |-> "Feature", place_id |-> p.place_id,
            coordinates |-> <<p.loc[1], p.loc[2]>>]>>

skip_place_no_dedup(pid, s) == pid = ""
\* "if not pid or pid in seen: continue"
skip_place(pid, s) == pid = "" \/ pid \in s

result_in_bounds(poly, p) ==
    /\ poly.minx <= p.loc[1] /\ p.loc[1] <= poly.maxx
    /\ poly.miny <= p.loc[2] /\ p.loc[2] <= poly.maxy
\* polygon.covers(Point(lng, lat)) of a search result
result_covered(poly, p) == Covers(poly, p.loc[1], p.loc[2])

count_call_dropped(n) == n
\* "total_calls += 1"
count_call(n) == n + 1

grid_empty_never(g) == FALSE
\* "if not grid"
grid_empty(g) == g = <<>>

ArtifactName == "places_exports/places_TS.geojson"
\* f"gs://{bucket_name}/{filename}"
GcsUri(name) == <<"gs:", "", "mvmu", name>>

RECURSIVE Rows(_)
\* load_geojson_into_bq: one NDJSON row per feature
Rows(fs) ==
    IF fs = <<>> THEN <<>>
    ELSE <<[place_id |-> Head(fs).place_id,
            lon |-> Head(fs).coordinates[1],
            lat |-> Head(fs).coordinates[2]]>> \o Rows(Tail(fs))

NoResponse == [status |-> 0, body |-> <<>>]
\* Flask's answer to an exception the handler does not catch.
InternalServerError == [status |-> 500, body |-> <<>>]

Tick(kind) == [calls EXCEPT ![kind] = @ + 1]

-----------------------------------------------------------------------------
(* run_ingestion *)

Init ==
    /\ pc = "start"
    /\ polygon \in Polygons
    /\ step \in Steps
    /\ lat = 0 /\ lon = 0 /\ pts = <<>>
    /\ grid = <<>>
    /\ idx = 0
    /\ features = <<>> /\ seen = {} /\ total_calls = 0
    /\ remaining = 0
    /\ next_page_token = FALSE
    /\ place = [place_id |-> "", loc |-> <<>>]
    /\ bucket = {}
    /\ table = <<>>
    /\ calls = [secret |-> 0, polygon |-> 0, search |-> 0, search_err |-> 0,
                put |-> 0, load |-> 0]
    /\ sent_params = {}
    /\ response = NoResponse

GetApiKeyOk ==
    /\ pc = "start"
    /\ calls' = Tick("secret")
    /\ pc' = "load_polygon"
    /\ UNCHANGED <<polygon, step, lat, lon, pts, grid, idx, features, seen,
                   total_calls, remaining, next_page_token, place, bucket,
                   table, sent_params, response>>

GetApiKeyFail ==
    /\ pc = "start"
    /\ calls' = Tick("secret")
    /\ pc' = "return_key_error"
    /\ response' = [status |-> 500,
                    body |-> [error |-> "Failed to fetch API key",
                              details |-> "str(e)"]]
    /\ UNCHANGED <<polygon, step, lat, lon, pts, grid, idx, features, seen,
                   total_calls, remaining, next_page_token, place, bucket,
                   table, sent_params>>

LoadPolygonOk ==
    /\ pc = "load_polygon"
    /\ calls' = Tick("polygon")
    /\ pc' = "grid_enter"
    /\ UNCHANGED <<polygon, step, lat, lon, pts, grid, idx, features, seen,
                   total_calls, remaining, next_page_token, place, bucket,
                   table, sent_params, response>>

LoadPolygonFail ==
    /\ pc = "load_polygon"
    /\ calls' = Tick("polygon")
    /\ pc' = "return_polygon_error"
    /\ response' = [status |-> 500,
                    body |-> [error |-> "Polygon load failed",
                              details |-> "str(e)"]]
    /\ UNCHANGED <<polygon, step, lat, lon, pts, grid, idx, features, seen,
                   total_calls, remaining, next_page_token, place, bucket,
                   table, sent_params>>

\* "if not grid: return ... 400", else the loop's initialisation.
CheckGrid ==
    /\ pc = "check_grid"
    /\ IF grid_empty(grid)
       THEN /\ pc' = "return_grid_empty"
            /\ response' = [status |-> 400, body |-> [error |-> "Grid empty"]]
            /\ UNCHANGED <<idx, features, seen, total_calls>>
       ELSE /\ features' = <<>>
            /\ seen' = {}
            /\ total_calls' = 0
            /\ idx' = 1
            /\ pc' = "loop"
            /\ response' = response
    /\ UNCHANGED <<polygon, step, lat, lon, pts, grid, remaining,
                   next_page_token, place, bucket, table, calls, sent_params>>

\* places_nearby raises (timeout, HTTP error status): "continue".
SearchFail ==
    /\ pc = "loop"
    /\ idx <= Len(grid)
    /\ calls' = [calls EXCEPT !.search = @ + 1, !.search_err = @ + 1]
    /\ sent_params' = sent_params \cup {places_nearby_params("")}
    /\ idx' = idx + 1
    /\ UNCHANGED <<pc, polygon, step, lat, lon, pts, grid, features, seen,
                   total_calls, remaining, next_page_token, place, bucket,
                   table, response>>

\* places_nearby returns the response's JSON.
SearchOk ==
    /\ pc = "loop"
    /\ idx <= Len(grid)
    /\ \E n \in 0..MaxResults, token \in BOOLEAN :
          /\ remaining' = n
          /\ next_page_token' = token
    /\ calls' = Tick("search")
    /\ sent_params' = sent_params \cup {places_nearby_params("")}
    /\ total_calls' = count_call(total_calls)
    /\ pc' = "results"
    /\ UNCHANGED <<polygon, step, lat, lon, pts, grid, idx, features, seen,
                   place, bucket, table, response>>

\* One iteration of "for place in resp.get('results', [])".
NextPlace ==
    /\ pc = "results"
    /\ remaining > 0
    /\ \E p \in Places :
          /\ place' = p
          /\ remaining' = remaining - 1
          /\ IF skip_place(p.place_id, seen)
             THEN UNCHANGED <<pc, features, seen, response>>
             ELSE IF p.loc = <<>>
             THEN \* place["geometry"]["location"] raises KeyError
                  /\ pc' = "unhandled"
                  /\ response' = InternalServerError
                  /\ UNCHANGED <<features, seen>>
             ELSE IF result_covered(polygon, p)
                     /\ feature_from_place(p) # <<>>
             THEN /\ features' = features \o feature_from_place(p)
                  /\ seen' = seen \cup {p.place_id}
                  /\ UNCHANGED <<pc, response>>
             ELSE UNCHANGED <<pc, features, seen, response>>
    /\ UNCHANGED <<polygon, step, lat, lon, pts, grid, idx, total_calls,
                   next_page_token, bucket, table, calls, sent_params>>

\* resp's results are exhausted: the next grid point.
ResultsDone ==
    /\ pc = "results"
    /\ remaining = 0
    /\ idx' = idx + 1
    /\ pc' = "loop"
    /\ UNCHANGED <<polygon, step, lat, lon, pts, grid, features, seen,
                   total_calls, remaining, next_page_token, place, bucket,
                   table, calls, sent_params, response>>

LoopDone ==
    /\ pc = "loop"
    /\ idx > Len(grid)
    /\ pc' = "upload"
    /\ UNCHANGED <<polygon, step, lat, lon, pts, grid, idx, features, seen,
                   total_calls, remaining, next_page_token, place, bucket,
                   table, calls, sent_params, response>>

\* upload_geojson_to_gcs
UploadOk ==
    /\ pc = "upload"
    /\ bucket' = bucket \cup {[name |-> ArtifactName, body |-> features]}
    /\ calls' = Tick("put")
    /\ pc' = "load_bq"
    /\ UNCHANGED <<polygon, step, lat, lon, pts, grid, idx, features, seen,
                   total_calls, remaining, next_page_token, place, table,
                   sent_params, response>>

UploadFail ==
    /\ pc = "upload"
    /\ calls' = Tick("put")
    /\ pc' = "unhandled"
    /\ response' = InternalServerError
    /\ UNCHANGED <<polygon, step, lat, lon, pts, grid, idx, features, seen,
                   total_calls, remaining, next_page_token, place, bucket,
                   table, sent_params>>

NdjsonName == <<ArtifactName, ".ndjson">>

\* load_geojson_into_bq returns; the handler answers 200.
LoadBqOk ==
    /\ pc = "load_bq"
    /\ bucket' = bucket \cup {[name |-> NdjsonName, body |-> Rows(features)]}
    /\ table' = table \o Rows(features)
    /\ calls' = [calls EXCEPT !.put = @ + 1, !.load = @ + 1]
    /\ pc' = "return_success"
    /\ response' = [status |-> 200,
                    body |-> [message |-> "Success",
                              gcs_uri |-> GcsUri(ArtifactName),
                              file |-> ArtifactName,
                              total_pois |-> Len(features),
                              api_calls |-> total_calls,
                              bq_job |-> "job_id"]]
    /\ UNCHANGED <<polygon, step, lat, lon, pts, grid, idx, features, seen,
                   total_calls, remaining, next_page_token, place,
                   sent_params>>

\* load_geojson_into_bq raises: at the download of the artifact, at the
\* NDJSON upload, or at the load job.
LoadBqFail ==
    /\ pc = "load_bq"
    /\ \E stage \in {"download", "temp_upload", "load_job"} :
          IF stage = "download"
          THEN UNCHANGED <<calls, bucket>>
          ELSE IF stage = "temp_upload"
          THEN /\ calls' = Tick("put")
               /\ bucket' = bucket
          ELSE /\ calls' = [calls EXCEPT !.put = @ + 1, !.load = @ + 1]
               /\ bucket' = bucket \cup
                     {[name |-> NdjsonName, body |-> Rows(features)]}
    /\ pc' = "unhandled"
    /\ response' = InternalServerError
    /\ UNCHANGED <<polygon, step, lat, lon, pts, grid, idx, features, seen,
                   total_calls, remaining, next_page_token, place, table,
                   sent_params>>

Next ==
    \/ GetApiKeyOk \/ GetApiKeyFail
    \/ LoadPolygonOk \/ LoadPolygonFail
    \/ GridEnter \/ GridOuter \/ GridInner
    \/ CheckGrid
    \/ SearchFail \/ SearchOk \/ NextPlace \/ ResultsDone \/ LoopDone
    \/ UploadOk \/ UploadFail
    \/ LoadBqOk \/ LoadBqFail

Spec == Init /\ [][Next]_vars

Returned ==
    pc \in {"return_key_error", "return_polygon_error", "return_grid_empty",
            "return_success", "unhandled"}

-----------------------------------------------------------------------------
(* Properties *)

FeatureIds == {features[i].place_id : i \in DOMAIN features}
Artifacts == {o \in bucket : o.name = ArtifactName}
BodyKeys(r) == DOMAIN r.body
\* What a caller can tell one answer from another by.
Outcome(r) ==
    <<r.status, IF "error" \in BodyKeys(r) THEN r.body.error ELSE "">>

\* C1: at every point of the harvesting loop and after it, no two entries of
\* features carry the same place_id.
C1_NoDuplicatePlaceIds ==
    \A i, j \in DOMAIN features :
        i # j => features[i].place_id # features[j].place_id

\* C1 witness: a covered result whose place_id is already in features, at
\* other coordinates, has been iterated and dropped.
C1_Witness ==
    /\ pc = "results"
    /\ place.loc # <<>>
    /\ Covers(polygon, place.loc[1], place.loc[2])
    /\ \E i \in DOMAIN features :
          /\ features[i].place_id = place.place_id
          /\ features[i].coordinates # place.loc

\* C2: every feature, in the list and in the artifact written from it, lies
\* within the polygon (boundary included), and seen holds only the ids of
\* appended features: a result outside the polygon marks nothing.
C2_FeaturesCovered ==
    /\ \A i \in DOMAIN features :
          Covers(polygon, features[i].coordinates[1],
                 features[i].coordinates[2])
    /\ seen = FeatureIds
    /\ \A o \in Artifacts : \A i \in DOMAIN o.body :
          Covers(polygon, o.body[i].coordinates[1], o.body[i].coordinates[2])

\* C2 witness: the run delivered features, and the last result iterated lay
\* outside the polygon and left its place_id unseen.
C2_Witness ==
    /\ pc = "return_success"
    /\ Len(features) >= 1
    /\ place.place_id # ""
    /\ place.loc # <<>>
    /\ ~Covers(polygon, place.loc[1], place.loc[2])
    /\ place.place_id \notin seen

C4_NoAbortBeforeSink ==
    ~(pc = "unhandled" /\ calls.put = 0)

\* C5 as stated: when the artifact is written and the warehouse load fails,
\* the answer carries the reference of the artifact, which is in the bucket.
C5_ArtifactReferenceReturned ==
    (Returned /\ Artifacts # {} /\ response.status # 200) =>
        /\ "gcs_uri" \in BodyKeys(response)
        /\ response.body.gcs_uri = GcsUri(ArtifactName)

\* C6: an empty grid ends the run with the answer 400 "Grid empty", which no
\* other way the run ends gives, and neither a search request nor an artifact
\* write nor a warehouse load is issued.
C6_EmptyGridOutcome ==
    /\ (grid = <<>> /\ pc \notin {"start", "load_polygon", "grid_enter",
                                  "grid_outer", "grid_inner",
                                  "return_key_error", "return_polygon_error"})
          => /\ pc \in {"check_grid", "return_grid_empty"}
             /\ calls.search = 0 /\ calls.put = 0 /\ calls.load = 0
             /\ sent_params = {} /\ bucket = {} /\ table = <<>>
    /\ pc = "return_grid_empty" =>
          grid = <<>> /\ Outcome(response) = <<400, "Grid empty">>
    /\ (Returned /\ pc # "return_grid_empty") =>
          Outcome(response) # <<400, "Grid empty">>

\* C6 witness: the grid came back empty and the run answered.
C6_Witness ==
    /\ pc = "return_grid_empty"
    /\ step > 0
    /\ calls.polygon = 1
    /\ pts = <<>>

\* C7 as stated: with a step <= 0 the run makes no external call.
C7_InvalidStepAborts ==
    step <= 0 =>
        /\ calls.secret = 0 /\ calls.polygon = 0 /\ calls.search = 0
        /\ calls.put = 0 /\ calls.load = 0
        /\ pc \notin {"grid_outer", "grid_inner"}

\* The coordinates (miny + j*s, minx + i*s) within the bounds that p covers.
ExactGrid(p, s) ==
    { <<p.miny + j * s, p.minx + i * s>> :
        i \in 0..((p.maxx - p.minx) \div s),
        j \in 0..((p.maxy - p.miny) \div s) } \cap
    { c \in (p.miny..p.maxy) \X (p.minx..p.maxx) : Covers(p, c[2], c[1]) }

\* C8 as stated: for a step > 0 the sampler returns exactly the covered
\* coordinates (miny + j*s, minx + i*s) within the bounds, each once.
C8_GridExact ==
    (pc = "check_grid" /\ step > 0) =>
        /\ {pts[k] : k \in DOMAIN pts} = ExactGrid(polygon, step)
        /\ Len(pts) = Cardinality(ExactGrid(polygon, step))

C10_UnitSquareNine ==
    (pc = "check_grid" /\ polygon = UnitSquare /\ step = 1) =>
        pts = << <<0, 0>>, <<0, 1>>, <<0, 2>>,
                 <<1, 0>>, <<1, 1>>, <<1, 2>>,
                 <<2, 0>>, <<2, 1>>, <<2, 2>> >>

\* C10 witness: the walk over the unit square has returned.
C10_Witness ==
    /\ pc = "check_grid"
    /\ polygon = UnitSquare
    /\ step = 1
    /\ Len(grid) = 9

\* C10 as stated: the walk over the unit square returns exactly 4 points.
C10_UnitSquareFour ==
    (pc = "check_grid" /\ polygon = UnitSquare /\ step = 1) => Len(pts) = 4

=============================================================================
